---- MODULE Spec2Model ----
(***************************************************************************)
(* Model of the DAON bulk-import pipeline:                                 *)
(*   creator-tools/bulk-protection-script.py   (script = "full")           *)
(*   creator-tools/simple-bulk-protector.py    (script = "simple")         *)
(* Source parsers, validation, preview/confirmation, the process_works     *)
(* loop with live and simulated submission, and the summary.               *)
(*                                                                         *)
(* Text is modelled as a run-length encoded string: a sequence of runs     *)
(* [c, n] of n >= 1 characters of class c, adjacent runs of different      *)
(* classes.  Classes: "ch" letter, "dot" '.', "sp" blank, "nl" newline,    *)
(* "sur" lone surrogate (not UTF-8 encodable), "tag" markup characters.    *)
(***************************************************************************)
EXTENDS Integers, Sequences, FiniteSets, TLC

(* ------------------------------ bounds -------------------------------- *)
MaxRecords == 2
MaxBatch == 2
MaxCalls == 4

(* ------------------------- program constants -------------------------- *)
MinContentFull == 100
MinContentSimple == 50
TitleLineLimit == 100
MaxContentSize == 10 * 1024 * 1024
PreviewCount == 3
SummaryTail == 5
TitlePreviewSimple == 40

(* ------------------------------- text --------------------------------- *)
Run(c, n) == [c |-> c, n |-> n]
Chars(n) == IF n = 0 THEN << >> ELSE << Run("ch", n) >>

RECURSIVE TextLen(_)
TextLen(t) == IF t = << >> THEN 0 ELSE Head(t).n + TextLen(Tail(t))

IsSpace(c) == c \in {"sp", "nl"}

RECURSIVE LStrip(_)
LStrip(t) ==
  IF t = << >> THEN << >>
  ELSE IF IsSpace(Head(t).c) THEN LStrip(Tail(t)) ELSE t

RECURSIVE RStrip(_)
RStrip(t) ==
  IF t = << >> THEN << >>
  ELSE IF IsSpace(t[Len(t)].c) THEN RStrip(SubSeq(t, 1, Len(t) - 1)) ELSE t

Strip(t) == RStrip(LStrip(t))

Concat(a, b) ==
  IF a = << >> THEN b
  ELSE IF b = << >> THEN a
  ELSE IF a[Len(a)].c = Head(b).c
       THEN SubSeq(a, 1, Len(a) - 1)
            \o << Run(Head(b).c, a[Len(a)].n + Head(b).n) >>
            \o Tail(b)
       ELSE a \o b

RECURSIVE FirstNewline(_, _)
FirstNewline(t, k) ==
  IF k > Len(t) THEN 0
  ELSE IF t[k].c = "nl" THEN k ELSE FirstNewline(t, k + 1)

FirstLine(t) ==
  LET k == FirstNewline(t, 1)
  IN IF k = 0 THEN t ELSE SubSeq(t, 1, k - 1)

AfterFirstLine(t) ==
  LET k == FirstNewline(t, 1)
  IN IF k = 0 THEN << >>
     ELSE IF t[k].n > 1
          THEN << Run("nl", t[k].n - 1) >> \o SubSeq(t, k + 1, Len(t))
          ELSE SubSeq(t, k + 1, Len(t))

EndsWithDot(t) == t # << >> /\ t[Len(t)].c = "dot"

RECURSIVE CollapseSpace(_)
CollapseSpace(t) ==
  IF t = << >> THEN << >>
  ELSE IF IsSpace(Head(t).c)
       THEN Concat(<< Run("sp", 1) >>, CollapseSpace(LStrip(t)))
       ELSE Concat(<< Head(t) >>, CollapseSpace(Tail(t)))

RECURSIVE GetText(_)
GetText(t) ==
  IF t = << >> THEN << >>
  ELSE IF Head(t).c = "tag" THEN GetText(Tail(t))
       ELSE Concat(<< Head(t) >>, GetText(Tail(t)))

Encodable(t) == \A k \in 1..Len(t) : t[k].c # "sur"

RECURSIVE WordCount(_, _)
WordCount(t, inWord) ==
  IF t = << >> THEN 0
  ELSE IF IsSpace(Head(t).c) THEN WordCount(Tail(t), FALSE)
       ELSE (IF inWord THEN 0 ELSE 1) + WordCount(Tail(t), TRUE)

(* ---------------------------- JSON values ----------------------------- *)
JStr(t) == [t |-> "str", s |-> t, l |-> << >>]
JNum(digits) == [t |-> "num", s |-> Chars(digits), l |-> << >>]
JNull == [t |-> "null", s |-> << >>, l |-> << >>]
JList(items) == [t |-> "list", s |-> << >>, l |-> items]

Untitled == JStr(Chars(8))
NoneText == Chars(4)

Truthy(v) ==
  CASE v.t = "str" -> v.s # << >>
    [] v.t = "num" -> TRUE
    [] v.t = "null" -> FALSE
    [] v.t = "list" -> v.l # << >>

Get(d, k, default) == IF k \in DOMAIN d THEN d[k] ELSE default

RECURSIVE Join(_, _)
Join(sep, items) ==
  IF items = << >> THEN << >>
  ELSE IF Len(items) = 1 THEN Head(items)
       ELSE Concat(Concat(Head(items), sep), Join(sep, Tail(items)))

PyStr(v) ==
  CASE v.t = "str" -> v.s
    [] v.t = "num" -> v.s
    [] v.t = "null" -> NoneText
    [] v.t = "list" -> Concat(Chars(1), Concat(Join(Chars(2), v.l), Chars(1)))

Sliceable(v) == v.t \in {"str", "list"}
HasLen(v) == v.t \in {"str", "list"}

(* ------------------------------- Work --------------------------------- *)
MkWork(title, content, author, src) ==
  [title |-> title, content |-> content, author |-> author,
   word_count |-> WordCount(content, FALSE), src |-> src]

NoWork == MkWork(JNull, << >>, JNull, "none")

Parsed(w) == [kind |-> "work", work |-> w]
Dropped == [kind |-> "drop", work |-> NoWork]
Raised == [kind |-> "raise", work |-> NoWork]

(* ----------------------------- validation ----------------------------- *)
is_valid_work(w) ==
  /\ Truthy(w.title)
  /\ w.content # << >>
  /\ ~(TextLen(Strip(w.content)) < MinContentFull)
  /\ ~(TextLen(w.content) > MaxContentSize)

(* ------------------------ structured export --------------------------- *)
ContentFieldsFull == << "content", "body", "text", "chapters", "summary" >>
ContentFieldsSimple == << "content", "body", "text", "chapters", "story" >>
AuthorFieldsFull == << "author", "authors", "creator", "creators" >>
AuthorFieldsSimple == << "author", "authors", "creator", "user", "by" >>

RECURSIVE FirstTruthy(_, _)
FirstTruthy(d, fields) ==
  IF fields = << >> THEN JNull
  ELSE IF Head(fields) \in DOMAIN d /\ Truthy(d[Head(fields)])
       THEN d[Head(fields)]
       ELSE FirstTruthy(d, Tail(fields))

extract_ao3_content(d) ==
  LET v == FirstTruthy(d, ContentFieldsFull)
  IN IF ~Truthy(v) THEN << >>
     ELSE IF v.t = "list" THEN Join(<< Run("nl", 2) >>, v.l) ELSE PyStr(v)

extract_content(d) ==
  LET v == FirstTruthy(d, ContentFieldsSimple)
  IN IF ~Truthy(v) THEN << >>
     ELSE IF v.t = "list" THEN Strip(Join(<< Run("nl", 2) >>, v.l))
          ELSE Strip(PyStr(v))

extract_ao3_author(d) ==
  LET v == FirstTruthy(d, AuthorFieldsFull)
  IN IF ~Truthy(v) THEN JNull
     ELSE IF v.t = "list" THEN JStr(Join(<< Run("ch", 1), Run("sp", 1) >>, v.l))
          ELSE JStr(PyStr(v))

extract_author(d) ==
  LET v == FirstTruthy(d, AuthorFieldsSimple)
  IN IF ~Truthy(v) THEN JStr(Chars(7))
     ELSE IF v.t = "list" THEN JStr(Join(<< Run("ch", 1), Run("sp", 1) >>, v.l))
          ELSE JStr(PyStr(v))

TagsAddable(d) ==
  LET a == Get(d, "tags", JList(<< >>))
      b == Get(d, "additional_tags", JList(<< >>))
  IN a.t = b.t /\ a.t \in {"list", "str", "num"}

ParseAo3Record(r) ==
  IF ~r.obj \/ ~TagsAddable(r.f) THEN Raised
  ELSE LET w == MkWork(Get(r.f, "title", Untitled), extract_ao3_content(r.f),
                       extract_ao3_author(r.f), "ao3")
       IN IF is_valid_work(w) THEN Parsed(w) ELSE Dropped

ParseJsonRecord(r) ==
  IF ~r.obj THEN Raised
  ELSE LET content == extract_content(r.f)
       IN IF content # << >> /\ TextLen(Strip(content)) > MinContentSimple
          THEN Parsed(MkWork(Get(r.f, "title", Untitled), content,
                             extract_author(r.f), "json"))
          ELSE Dropped

(* --------------------------- file directory --------------------------- *)
ParseFileFull(file) ==
  IF ~file.readable THEN Raised
  ELSE LET first == Strip(FirstLine(file.text))
           title == IF TextLen(first) < TitleLineLimit THEN first ELSE file.stem
           content == IF first = title THEN Strip(AfterFirstLine(file.text))
                      ELSE file.text
           w == MkWork(JStr(title), content, JNull, "file")
       IN IF is_valid_work(w) THEN Parsed(w) ELSE Dropped

parse_single_file_anyline(file) ==
  IF ~file.readable THEN Dropped
  ELSE LET content == Strip(file.text)
           first == Strip(FirstLine(content))
       IN IF TextLen(content) < MinContentSimple THEN Dropped
          ELSE IF TextLen(first) < TitleLineLimit
               THEN Parsed(MkWork(JStr(first), Strip(AfterFirstLine(content)),
                                  JStr(Chars(7)), "file"))
               ELSE Parsed(MkWork(JStr(file.stem), content, JStr(Chars(7)), "file"))

parse_single_file(file) ==
  IF ~file.readable THEN Dropped
  ELSE LET content == Strip(file.text)
           first == Strip(FirstLine(content))
       IN IF TextLen(content) < MinContentSimple THEN Dropped
          ELSE IF TextLen(first) < TitleLineLimit /\ ~EndsWithDot(first)
               THEN Parsed(MkWork(JStr(first), Strip(AfterFirstLine(content)),
                                  JStr(Chars(7)), "file"))
               ELSE Parsed(MkWork(JStr(file.stem), content, JStr(Chars(7)), "file"))

(* ------------------------- syndication export ------------------------- *)
Skipped == [kind |-> "skip", work |-> NoWork]

(* <category domain="..."> children of an item, in document order: terms   *)
(* of domain post_tag go to one list, those of domain category to another, *)
(* and the Work gets tags + categories.                                    *)
RECURSIVE TermsOf(_, _)
TermsOf(terms, domains) ==
  IF terms = << >> THEN << >>
  ELSE IF Head(terms).domain \in domains
       THEN << Head(terms).term >> \o TermsOf(Tail(terms), domains)
       ELSE TermsOf(Tail(terms), domains)

WpTags_encountered(item) == TermsOf(item.terms, {"post_tag", "category"})

WpTags(item) ==
  TermsOf(item.terms, {"post_tag"}) \o TermsOf(item.terms, {"category"})

WithTags(w, tags) ==
  [k \in DOMAIN w \cup {"tags"} |-> IF k = "tags" THEN tags ELSE w[k]]

ParseWpItem(item, wpns) ==
  IF ~wpns THEN Raised
  ELSE IF item.post_type \notin {"absent", "post", "page"} THEN Skipped
  ELSE IF item.status \notin {"absent", "publish"} THEN Skipped
  ELSE IF ~item.hasTitle THEN Raised
  ELSE IF item.hasContent /\ item.content = << >> THEN Raised
  ELSE LET title == IF item.title = << >> THEN Untitled ELSE JStr(item.title)
           content == IF item.hasContent THEN GetText(item.content) ELSE << >>
           w == WithTags(MkWork(title, content, JNull, "wordpress"), WpTags(item))
       IN IF is_valid_work(w) THEN Parsed(w) ELSE Dropped

(* ------------------------------ URL list ------------------------------ *)
IsUrlLine(entry) == entry.line = "url"

RECURSIVE UrlLines(_)
UrlLines(entries) ==
  IF entries = << >> THEN << >>
  ELSE IF IsUrlLine(Head(entries))
       THEN << Head(entries) >> \o UrlLines(Tail(entries))
       ELSE UrlLines(Tail(entries))

scrape_url(entry) ==
  IF entry.fetch # "page" THEN Raised
  ELSE LET title == IF entry.hasTitle THEN JStr(Strip(entry.title)) ELSE Untitled
           raw == IF entry.selected # << >> THEN entry.selected ELSE entry.page
           content == Strip(CollapseSpace(GetText(raw)))
       IN Parsed(MkWork(title, content, JNull, "url"))

ParseUrlEntry(entry) ==
  LET r == scrape_url(entry)
  IN IF r.kind = "raise" THEN Raised
     ELSE IF is_valid_work(r.work) THEN r ELSE Dropped

(* --------------------------- content hashing -------------------------- *)
Sha256Hex(t) == [alg |-> "sha256", hexlen |-> 64, input |-> t]
NoDigest == [alg |-> "none", hexlen |-> 0, input |-> << >>]

HashStr(t) == [kind |-> "str", prefix |-> "sha256:", hex |-> Sha256Hex(t)]
HashAbsent == [kind |-> "absent", prefix |-> "", hex |-> NoDigest]
HashNull == [kind |-> "null", prefix |-> "", hex |-> NoDigest]

(* f"sha256:{hashlib.sha256(work.content.encode()).hexdigest()}"           *)
content_hash_titled(w) == HashStr(Concat(PyStr(w.title), w.content))

content_hash(w) == HashStr(w.content)

Licenses == {"liberation_v1", "cc_by_nc"}

(* The fields of the request body that vary from work to work or run to    *)
(* run; the rest of the metadata is copied from the Work unchanged.        *)
Payload(w, license) ==
  [content_hash |-> content_hash(w), license |-> license, title |-> w.title,
   author |-> w.author, word_count |-> w.word_count]

(* ------------------------- submission outcomes ------------------------ *)
Outcome(obj, success, hash, hasError, error, simulated) ==
  [obj |-> obj, success |-> success, content_hash |-> hash,
   has_error |-> hasError, error |-> error, simulated |-> simulated]

NoResult == Outcome(FALSE, "absent", HashAbsent, FALSE, "", FALSE)
Failure(text) == Outcome(TRUE, "false", HashAbsent, TRUE, text, FALSE)

simulate_protection_unflagged(w) ==
  Outcome(TRUE, "true", HashStr(w.content), FALSE, "", FALSE)

simulate_protection(w) == Outcome(TRUE, "true", content_hash(w), FALSE, "", TRUE)

NoResponse == [net |-> "none", status |-> "none", body |-> "none"]
Transport == [net |-> "error", status |-> "none", body |-> "none"]
Http(status, body) == [net |-> "ok", status |-> status, body |-> body]

Responses ==
  { Transport, Http("4xx", "notjson"), Http("2xx", "notjson"),
    Http("2xx", "ok"), Http("2xx", "refused"), Http("2xx", "empty_obj"),
    Http("2xx", "null_hash"), Http("2xx", "array"), Http("3xx", "ok"),
    Http("2xx", "other_hash"), Http("2xx", "no_hash") }

ResponseJson(body, sent) ==
  CASE body = "ok" -> Outcome(TRUE, "true", sent, FALSE, "", FALSE)
    [] body = "refused" -> Outcome(TRUE, "false", HashAbsent, TRUE, "refused", FALSE)
    [] body = "empty_obj" -> Outcome(TRUE, "absent", HashAbsent, FALSE, "", FALSE)
    [] body = "null_hash" -> Outcome(TRUE, "true", HashNull, FALSE, "", FALSE)
    [] body = "other_hash" -> Outcome(TRUE, "true", HashStr(Chars(1)), FALSE, "", FALSE)
    [] body = "no_hash" -> Outcome(TRUE, "true", HashAbsent, FALSE, "", FALSE)
    [] body = "array" -> Outcome(FALSE, "absent", HashAbsent, FALSE, "", FALSE)

RaisesForStatus(scr, status) ==
  IF scr = "full" THEN status \in {"4xx", "5xx"} ELSE status # "2xx"

RequestSent(w) == Encodable(w.content)

protect_work(scr, w, resp) ==
  IF ~Encodable(w.content) THEN Failure("UnicodeEncodeError")
  ELSE IF resp.net = "error" THEN Failure("URLError")
  ELSE IF RaisesForStatus(scr, resp.status) THEN Failure("HTTPError")
  ELSE IF resp.body = "notjson" THEN Failure("JSONDecodeError")
  ELSE ResponseJson(resp.body, content_hash(w))

(* Subscript result['success'] raises unless result is a dict with the key. *)
SuccessReadable(r) == r.obj /\ r.success # "absent"
(* result.get('content_hash', '')[:16] raises unless the value is a string. *)
HashSliceable(r) == r.content_hash.kind \in {"absent", "str"}

(* ------------------------- confirmation prompt ------------------------ *)
LowerChar(c) == IF c = "Y" THEN "y" ELSE IF c = "N" THEN "n" ELSE c
Lower(a) == [k \in 1..Len(a) |-> LowerChar(a[k])]
Answers == { << >>, <<"y">>, <<"Y">>, <<"n">>, <<"y", "e", "s">>, <<" ", "y">> }
Confirmed_startswith(a) == a # << >> /\ LowerChar(a[1]) = "y"

Confirmed(a) == Lower(a) = <<"y">>

(* ------------------------------ sources ------------------------------- *)
Rec(f) == [obj |-> TRUE, f |-> f]
NonDict == [obj |-> FALSE, f |-> [id |-> JNum(1)]]

File(stem, text) == [stem |-> stem, text |-> text, readable |-> TRUE]
Unreadable == [stem |-> Chars(3), text |-> << >>, readable |-> FALSE]

Item(ptype, status, title, content) ==
  [post_type |-> ptype, status |-> status, hasTitle |-> TRUE, title |-> title,
   hasContent |-> TRUE, content |-> content, terms |-> << >>]

Term(domain, term) == [domain |-> domain, term |-> term]
Tagged(item, terms) == [item EXCEPT !.terms = terms]

UrlPage(title, selected, page) ==
  [line |-> "url", fetch |-> "page", hasTitle |-> TRUE, title |-> title,
   selected |-> selected, page |-> page]
UrlDown ==
  [line |-> "url", fetch |-> "error", hasTitle |-> FALSE, title |-> << >>,
   selected |-> << >>, page |-> << >>]
UrlComment ==
  [line |-> "comment", fetch |-> "error", hasTitle |-> FALSE, title |-> << >>,
   selected |-> << >>, page |-> << >>]

Source(ext, top, wpns, items) ==
  [ext |-> ext, top |-> top, wpns |-> wpns, items |-> items]

SeqsUpTo(S, n) == UNION { [1..k -> S] : k \in 1..n }

(* A path that names nothing on disk, and a file that is not valid JSON.  *)
MissingPath == Source("json", "missing", FALSE, << >>)
BrokenFile == Source("json", "invalid", FALSE, << >>)
Exists_unchecked(src) == TRUE

Exists(src) == src.top # "missing"

(* Records of the batch runs: two well-formed ones with the same body and  *)
(* different titles and authors, a null title, a numeric                   *)
(* title, and a body holding a lone surrogate (valid JSON "\ud800").       *)
RunRecords ==
  { Rec([title |-> JStr(Chars(5)), content |-> JStr(Chars(120))]),
    Rec([title |-> JStr(Chars(7)), content |-> JStr(Chars(120)),
         author |-> JStr(Chars(3))]),
    Rec([title |-> JNull, content |-> JStr(Chars(130))]),
    Rec([title |-> JNum(4), body |-> JStr(Chars(140))]),
    Rec([title |-> JStr(Chars(6)),
         content |-> JStr(<< Run("ch", 150), Run("sur", 1) >>)]) }

RunFiles ==
  { File(Chars(4), << Run("ch", 8), Run("nl", 2), Run("ch", 200) >>) }

RunUrls ==
  { UrlPage(Chars(9), << Run("ch", 300) >>, << Run("ch", 400) >>), UrlDown }

RunItems ==
  { Item("post", "publish", Chars(7), << Run("tag", 3), Run("ch", 500), Run("tag", 4) >>),
    Item("post", "draft", Chars(7), << Run("ch", 600) >>) }

RunSources(scr) ==
  { Source("json", "list", FALSE, s) : s \in SeqsUpTo(RunRecords, MaxBatch) }
  \cup { MissingPath, BrokenFile }
  \cup { Source("dir", "tree", FALSE, s) : s \in SeqsUpTo(RunFiles, 1) }
  \cup { Source("xml", "rss", TRUE, s) : s \in SeqsUpTo(RunItems, 1) }
  \cup (IF scr = "full"
        THEN { Source("txt", "lines", FALSE, s) : s \in SeqsUpTo(RunUrls, MaxBatch) }
        ELSE { Source("txt", "text", FALSE, s) : s \in SeqsUpTo(RunFiles, 1) })

(* Inputs of the parser runs: boundary lengths around both minimum        *)
(* thresholds, padded and oversize bodies, missing / empty / null titles,  *)
(* chapter lists, a field fall-through and records that raise.             *)
Title == JStr(Chars(5))

ParseRecords ==
  { Rec([title |-> Title, content |-> JStr(Chars(120))]),
    Rec([content |-> JStr(Chars(121))]),
    Rec([title |-> JStr(<< >>), content |-> JStr(Chars(110))]),
    Rec([title |-> JNull, content |-> JStr(Chars(115))]),
    Rec([title |-> Title, content |-> JStr(Chars(60))]),
    Rec([title |-> Title, content |-> JStr(Chars(MinContentSimple))]),
    Rec([title |-> Title, content |-> JStr(Chars(40))]),
    Rec([title |-> Title,
         content |-> JStr(<< Run("sp", 3), Run("ch", 98), Run("sp", 3) >>)]),
    Rec([title |-> Title, content |-> JStr(Chars(MaxContentSize + 1))]),
    Rec([title |-> Title, chapters |-> JList(<< Chars(60), Chars(61) >>)]),
    Rec([title |-> Title, content |-> JStr(<< >>), body |-> JStr(Chars(130))]),
    Rec([title |-> Title, content |-> JStr(Chars(140)),
         tags |-> JStr(Chars(3)), additional_tags |-> JList(<< Chars(2) >>)]),
    NonDict }

ParseFiles ==
  { File(Chars(4), << Run("ch", 8), Run("nl", 2), Run("ch", 200) >>),
    File(Chars(4), << Run("ch", 8), Run("nl", 2), Run("ch", 45) >>),
    File(Chars(4), << Run("ch", 60) >>),
    File(Chars(4), << Run("ch", 70), Run("nl", 1), Run("ch", 75) >>),
    File(Chars(4), << Run("ch", 119), Run("dot", 1), Run("nl", 1), Run("ch", 90) >>),
    File(Chars(4), << Run("ch", 30), Run("dot", 1), Run("nl", 1), Run("ch", 100) >>),
    File(Chars(4), << Run("nl", 1), Run("ch", 150) >>),
    File(Chars(4), << Run("nl", 2), Run("ch", 20), Run("nl", 1), Run("ch", 160) >>),
    File(Chars(100), << Run("ch", 100), Run("nl", 1), Run("ch", 170) >>),
    File(Chars(4), << Run("ch", 30) >>),
    File(Chars(4), << Run("ch", 9), Run("nl", 1), Run("ch", MaxContentSize + 1) >>),
    Unreadable }

ParseItems ==
  { Item("post", "publish", Chars(7), << Run("tag", 3), Run("ch", 500), Run("tag", 4) >>),
    Item("post", "draft", Chars(7), << Run("ch", 600) >>),
    Item("attachment", "publish", Chars(7), << Run("ch", 610) >>),
    Item("page", "absent", << >>, << Run("ch", 620) >>),
    Item("absent", "publish", Chars(7), << Run("tag", 200) >>),
    Item("post", "publish", Chars(7), << Run("tag", 3), Run("ch", 99), Run("tag", 4) >>),
    Item("post", "publish", Chars(7), << >>),
    [post_type |-> "post", status |-> "publish", hasTitle |-> FALSE, title |-> << >>,
     hasContent |-> FALSE, content |-> << >>, terms |-> << >>],
    [post_type |-> "post", status |-> "publish", hasTitle |-> TRUE, title |-> Chars(6),
     hasContent |-> FALSE, content |-> << >>, terms |-> << >>],
    Tagged(Item("post", "publish", Chars(7), << Run("ch", 630) >>),
           << Term("category", "fiction"), Term("post_tag", "ocean"),
              Term("post_tag", "ocean"), Term("nav_menu", "main"),
              Term("category", "drafts"), Term("post_tag", "storm") >>),
    Tagged(Item("post", "publish", Chars(7), << Run("ch", 640) >>),
           << Term("post_tag", "ocean"), Term("category", "fiction") >>) }

ParseUrls ==
  { UrlPage(Chars(9), << Run("ch", 300) >>, << Run("ch", 400) >>),
    UrlPage(Chars(9), << >>, << Run("ch", 50), Run("nl", 3), Run("ch", 48) >>),
    UrlPage(Chars(9), << >>, << Run("ch", 50), Run("nl", 3), Run("ch", 49) >>),
    UrlPage(<< Run("sp", 2) >>, << Run("ch", 310) >>, << Run("ch", 410) >>),
    [line |-> "url", fetch |-> "page", hasTitle |-> FALSE, title |-> << >>,
     selected |-> << Run("ch", 320) >>, page |-> << Run("ch", 420) >>],
    UrlDown, UrlComment }

ParseSources(scr) ==
  { Source("json", top, FALSE, s) :
      top \in {"list", "works"}, s \in SeqsUpTo(ParseRecords, MaxRecords) }
  \cup { Source("json", top, FALSE, s) :
      top \in {"other", "invalid"}, s \in SeqsUpTo(ParseRecords, 1) }
  \cup { Source("dir", "tree", FALSE, s) : s \in SeqsUpTo(ParseFiles, MaxRecords) }
  \cup { Source("xml", top, ns, s) :
      top \in {"rss", "invalid"}, ns \in BOOLEAN, s \in SeqsUpTo(ParseItems, MaxRecords) }
  \cup { Source("other", "none", FALSE, << >>), MissingPath }
  \cup (IF scr = "full"
        THEN { Source("txt", "lines", FALSE, s) : s \in SeqsUpTo(ParseUrls, MaxRecords) }
        ELSE { Source("txt", "text", FALSE, s) : s \in SeqsUpTo(ParseFiles, 1) })

(* ------------------------------- state -------------------------------- *)
VARIABLES script, dry_run, license_type, source, pc, j, works, parse_log, i,
          payloads, response, result, results, protected_count, error_count,
          skipped_count, events, answer, interrupted, summary,
          default_client, instances, sdk_calls

vars == << script, dry_run, license_type, source, pc, j, works, parse_log, i,
           payloads, response, result, results, protected_count, error_count,
           skipped_count, events, answer, interrupted, summary,
           default_client, instances, sdk_calls >>

Event(e, k) == [e |-> e, k |-> k]

(* _default_client = None; a client is named by the order of its creation. *)
None == 0
NoSummary == [shown |-> 0, protected |-> 0, failed |-> 0, total |-> 0, lines |-> << >>]

InitTool ==
  /\ script \in {"full", "simple"}
  /\ dry_run \in BOOLEAN
  /\ license_type \in Licenses
  /\ pc = "start"
  /\ j = 0
  /\ works = << >>
  /\ parse_log = << >>
  /\ i = 0
  /\ payloads = << >>
  /\ response = NoResponse
  /\ result = NoResult
  /\ results = << >>
  /\ protected_count = 0
  /\ error_count = 0
  /\ skipped_count = 0
  /\ events = << >>
  /\ answer = << >>
  /\ interrupted = FALSE
  /\ summary = NoSummary
  /\ default_client = None
  /\ instances = << >>
  /\ sdk_calls = << >>

Init == InitTool /\ source \in RunSources(script)

InitParse == InitTool /\ source \in ParseSources(script)

(* ------------------------- protect_from_source ------------------------ *)
Unsupported(scr, src) ==
  IF scr = "full" THEN src.ext \notin {"json", "xml", "txt", "dir"}
  ELSE src.ext \notin {"json", "txt", "dir"}

OpenFails_lenient(scr, src) == src.top = "invalid"

OpenFails(scr, src) ==
  \/ src.top = "invalid"
  \/ scr = "full" /\ src.ext = "json" /\ src.top \notin {"list", "works"}

WorkList_first(scr, src) ==
  IF src.top = "works" /\ src.items # << >> THEN << Head(src.items) >>
  ELSE src.items

WorkList(scr, src) ==
  IF scr = "full" /\ src.ext = "txt" THEN UrlLines(src.items) ELSE src.items

ParseItem(scr, src, item) ==
  CASE src.ext = "json" ->
         IF scr = "full" THEN ParseAo3Record(item) ELSE ParseJsonRecord(item)
    [] src.ext = "xml" -> ParseWpItem(item, src.wpns)
    [] src.ext = "txt" ->
         IF scr = "full" THEN ParseUrlEntry(item) ELSE parse_single_file(item)
    [] src.ext = "dir" ->
         IF scr = "full" THEN ParseFileFull(item) ELSE parse_single_file(item)

Fetches(scr, src) == scr = "full" /\ src.ext = "txt"

(* An exception raised by one record is caught inside the loop body, so    *)
(* the loop goes on with the record after it.                              *)
NextRecord_abort(kind, k, n) == IF kind = "raise" THEN n + 1 ELSE k + 1

NextRecord(kind, k, n) == k + 1

SourceNotFound ==
  /\ pc = "start"
  /\ ~Exists(source)
  /\ pc' = "exit1"
  /\ UNCHANGED << script, dry_run, license_type, source, j, works, parse_log,
                  i, payloads, response, result, results, protected_count,
                  error_count, skipped_count, events, answer, interrupted,
                  summary, default_client, instances, sdk_calls >>

OpenSource ==
  /\ pc = "start"
  /\ Exists(source)
  /\ pc' = IF Unsupported(script, source) THEN "done"
           ELSE IF OpenFails(script, source) THEN "parsed" ELSE "parsing"
  /\ j' = 1
  /\ UNCHANGED << script, dry_run, license_type, source, works, parse_log, i,
                  payloads, response, result, results, protected_count,
                  error_count, skipped_count, events, answer, interrupted,
                  summary, default_client, instances, sdk_calls >>

ParseRecord ==
  /\ pc = "parsing"
  /\ j <= Len(WorkList(script, source))
  /\ LET r == ParseItem(script, source, WorkList(script, source)[j])
     IN /\ works' = IF r.kind = "work" THEN Append(works, r.work) ELSE works
        /\ parse_log' = Append(parse_log, [at |-> j, kind |-> r.kind])
        /\ events' = IF ~Fetches(script, source) THEN events
                     ELSE IF r.kind = "raise" THEN Append(events, Event("fetch", j))
                     ELSE events \o << Event("fetch", j), Event("fetch_delay", j) >>
        /\ j' = NextRecord(r.kind, j, Len(WorkList(script, source)))
  /\ UNCHANGED << script, dry_run, license_type, source, pc, i, payloads,
                  response, result, results, protected_count, error_count,
                  skipped_count, answer, interrupted, summary,
                  default_client, instances, sdk_calls >>

ParseDone ==
  /\ pc = "parsing"
  /\ j > Len(WorkList(script, source))
  /\ pc' = "parsed"
  /\ UNCHANGED << script, dry_run, license_type, source, j, works, parse_log,
                  i, payloads, response, result, results, protected_count,
                  error_count, skipped_count, events, answer, interrupted,
                  summary, default_client, instances, sdk_calls >>

NoWorks ==
  /\ pc = "parsed"
  /\ works = << >>
  /\ pc' = "done"
  /\ UNCHANGED << script, dry_run, license_type, source, j, works, parse_log,
                  i, payloads, response, result, results, protected_count,
                  error_count, skipped_count, events, answer, interrupted,
                  summary, default_client, instances, sdk_calls >>

show_preview ==
  /\ pc = "parsed"
  /\ works # << >>
  /\ events' = events \o << Event("preview", IF Len(works) < PreviewCount
                                         THEN Len(works) ELSE PreviewCount) >>
                      \o (IF dry_run THEN << Event("process", Len(works)) >>
                          ELSE << >>)
  /\ pc' = IF dry_run THEN "loop" ELSE "confirm"
  /\ i' = 1
  /\ UNCHANGED << script, dry_run, license_type, source, j, works, parse_log,
                  payloads, response, result, results, protected_count,
                  error_count, skipped_count, answer, interrupted, summary,
                  default_client, instances, sdk_calls >>

Confirm ==
  /\ pc = "confirm"
  /\ \E a \in Answers :
       /\ answer' = a
       /\ pc' = IF Confirmed(a) THEN "loop" ELSE "done"
       /\ events' = IF Confirmed(a)
                    THEN events \o << Event("prompt", 0), Event("process", Len(works)) >>
                    ELSE Append(events, Event("prompt", 0))
  /\ UNCHANGED << script, dry_run, license_type, source, j, works, parse_log,
                  i, payloads, response, result, results, protected_count,
                  error_count, skipped_count, interrupted, summary,
                  default_client, instances, sdk_calls >>

(* ---------------------------- process_works --------------------------- *)
(* The progress line sits before the try block: work.title[:50] in the     *)
(* full script, len(work.title) / work.title[:40] + "..." in the simple.   *)
TitleLineOk(scr, title) ==
  IF scr = "full" THEN Sliceable(title)
  ELSE title.t = "str" \/ (title.t = "list" /\ Len(title.l) <= TitlePreviewSimple)

InTry(p) == p \in {"submit", "classify", "append", "sleep"}

LoopHead ==
  /\ pc = "loop"
  /\ i <= Len(works)
  /\ pc' = IF TitleLineOk(script, works[i].title) THEN "submit" ELSE "crashed"
  /\ UNCHANGED << script, dry_run, license_type, source, j, works, parse_log,
                  i, payloads, response, result, results, protected_count,
                  error_count, skipped_count, events, answer, interrupted,
                  summary, default_client, instances, sdk_calls >>

LoopExit ==
  /\ pc = "loop"
  /\ i > Len(works)
  /\ pc' = "summary"
  /\ UNCHANGED << script, dry_run, license_type, source, j, works, parse_log,
                  i, payloads, response, result, results, protected_count,
                  error_count, skipped_count, events, answer, interrupted,
                  summary, default_client, instances, sdk_calls >>

SubmitDry ==
  /\ pc = "submit"
  /\ dry_run
  /\ events' = Append(events, Event("submit", i))
  /\ IF Encodable(works[i].content)
     THEN result' = simulate_protection(works[i]) /\ pc' = "classify"
     ELSE result' = result /\ pc' = "handler"
  /\ UNCHANGED << script, dry_run, license_type, source, j, works, parse_log,
                  i, payloads, response, results, protected_count,
                  error_count, skipped_count, answer, interrupted, summary,
                  default_client, instances, sdk_calls >>

SubmitLive ==
  /\ pc = "submit"
  /\ ~dry_run
  /\ IF RequestSent(works[i])
     THEN \E resp \in Responses :
            /\ response' = resp
            /\ result' = protect_work(script, works[i], resp)
     ELSE /\ response' = NoResponse
          /\ result' = protect_work(script, works[i], NoResponse)
  /\ events' = IF RequestSent(works[i])
               THEN events \o << Event("submit", i), Event("post", i) >>
               ELSE Append(events, Event("submit", i))
  /\ payloads' = IF RequestSent(works[i])
                 THEN Append(payloads, [k |-> i, json |-> Payload(works[i], license_type)])
                 ELSE payloads
  /\ pc' = "classify"
  /\ UNCHANGED << script, dry_run, license_type, source, j, works, parse_log,
                  i, results, protected_count, error_count, skipped_count,
                  answer, interrupted, summary, default_client, instances,
                  sdk_calls >>

Classify ==
  /\ pc = "classify"
  /\ protected_count' = IF SuccessReadable(result) /\ result.success = "true"
                        THEN protected_count + 1 ELSE protected_count
  /\ error_count' = IF SuccessReadable(result) /\ result.success = "false"
                    THEN error_count + 1 ELSE error_count
  /\ pc' = IF ~SuccessReadable(result) THEN "handler"
           ELSE IF result.success = "true" /\ ~HashSliceable(result) THEN "handler"
           ELSE "append"
  /\ UNCHANGED << script, dry_run, license_type, source, j, works, parse_log,
                  i, payloads, response, result, results, skipped_count,
                  events, answer, interrupted, summary, default_client,
                  instances, sdk_calls >>

AppendResult ==
  /\ pc = "append"
  /\ results' = Append(results, [k |-> i, work |-> works[i], result |-> result])
  /\ pc' = "sleep"
  /\ UNCHANGED << script, dry_run, license_type, source, j, works, parse_log,
                  i, payloads, response, result, protected_count,
                  error_count, skipped_count, events, answer, interrupted,
                  summary, default_client, instances, sdk_calls >>

(* enumerate(works, 1): the loop moves on to the next work whether the     *)
(* outcome was a success, a failure or an exception.                       *)
NextWork_retry(k, succeeded) == IF succeeded THEN k + 1 ELSE k

NextWork(k, succeeded) == k + 1

Sleep ==
  /\ pc = "sleep"
  /\ events' = Append(events, Event("delay", i))
  /\ i' = NextWork(i, result.success = "true")
  /\ pc' = "loop"
  /\ UNCHANGED << script, dry_run, license_type, source, j, works, parse_log,
                  payloads, response, result, results, protected_count,
                  error_count, skipped_count, answer, interrupted, summary,
                  default_client, instances, sdk_calls >>

Handler ==
  /\ pc = "handler"
  /\ error_count' = error_count + 1
  /\ events' = Append(events, Event("exception", i))
  /\ i' = NextWork(i, FALSE)
  /\ pc' = "loop"
  /\ UNCHANGED << script, dry_run, license_type, source, j, works, parse_log,
                  payloads, response, result, results, protected_count,
                  skipped_count, answer, interrupted, summary,
                  default_client, instances, sdk_calls >>

(* KeyboardInterrupt is asynchronous: inside the try block it breaks the   *)
(* loop; at the loop head or inside the except clause it propagates.  The  *)
(* event records how many works had their outcome logged or their          *)
(* exception handled when it arrived.                                      *)
Interrupt ==
  /\ ~interrupted
  /\ \/ InTry(pc)
     \/ pc = "loop" /\ i <= Len(works)
     \/ pc = "handler"
  /\ interrupted' = TRUE
  /\ pc' = IF InTry(pc) THEN "summary" ELSE "crashed"
  /\ events' = Append(events, Event("interrupt", IF pc = "sleep" THEN i ELSE i - 1))
  /\ UNCHANGED << script, dry_run, license_type, source, j, works, parse_log,
                  i, payloads, response, result, results, protected_count,
                  error_count, skipped_count, answer, summary,
                  default_client, instances, sdk_calls >>

(* ----------------------------- show_summary --------------------------- *)
RECURSIVE FailedOf(_)
FailedOf(log) ==
  IF log = << >> THEN << >>
  ELSE IF Head(log).result.success # "true"
       THEN << Head(log).k >> \o FailedOf(Tail(log))
       ELSE FailedOf(Tail(log))

LastN(log, n) == IF Len(log) <= n THEN log ELSE SubSeq(log, Len(log) - n + 1, Len(log))

FailureLines(scr, log, errors) ==
  IF errors > 0
  THEN FailedOf(IF scr = "full" THEN log ELSE LastN(log, SummaryTail))
  ELSE << >>

show_summary ==
  /\ pc = "summary"
  /\ summary' = [shown |-> summary.shown + 1, protected |-> protected_count,
                 failed |-> error_count, total |-> Len(results),
                 lines |-> FailureLines(script, results, error_count)]
  /\ events' = Append(events, Event("summary", 0))
  /\ pc' = "done"
  /\ UNCHANGED << script, dry_run, license_type, source, j, works, parse_log,
                  i, payloads, response, result, results, protected_count,
                  error_count, skipped_count, answer, interrupted,
                  default_client, instances, sdk_calls >>

Next ==
  \/ SourceNotFound \/ OpenSource \/ ParseRecord \/ ParseDone \/ NoWorks \/ show_preview
  \/ Confirm \/ LoopHead \/ LoopExit \/ SubmitDry \/ SubmitLive \/ Classify
  \/ AppendResult \/ Sleep \/ Handler \/ Interrupt \/ show_summary

Spec == Init /\ [][Next]_vars

(* The status the process ends with: sys.exit(1), a return from main, or   *)
(* an exception that leaves main (a traceback, or an uncaught interrupt).  *)
Exited == pc \in {"done", "exit1", "crashed"}
ExitStatus ==
  CASE pc = "done" -> 0
    [] pc = "exit1" -> 1
    [] pc = "crashed" -> IF interrupted THEN 130 ELSE 1
    [] OTHER -> -1

NextParse == SourceNotFound \/ OpenSource \/ ParseRecord \/ ParseDone

SpecParse == InitParse /\ [][NextParse]_vars

(* ------------------------ SDK default client -------------------------- *)
(* daon/__init__.py keeps one module-level client.  Calls are made one     *)
(* after another by a single caller; each action is one whole call.        *)
(* DAONClient(kwargs) builds a new client object, or raises when it        *)
(* rejects its arguments, in which case nothing is assigned.               *)
Kwargs == {"defaults", "api_url", "rejected"}
Raises(kwargs) == kwargs = "rejected"
DAONClient(created, kwargs) == Append(created, kwargs)

Call(op, client) == [op |-> op, client |-> client]
Uses == {"get_client", "protect", "verify", "check_liberation_compliance"}

(* get_client(): the client to use and the module state it leaves.         *)
Lookup_fresh(current, created) ==
  [client |-> Len(created) + 1, created |-> DAONClient(created, "defaults")]

Lookup(current, created) ==
  IF current = None
  THEN [client |-> Len(created) + 1, created |-> DAONClient(created, "defaults")]
  ELSE [client |-> current, created |-> created]

SdkIdle ==
  UNCHANGED << script, dry_run, license_type, source, pc, j, works, parse_log,
               i, payloads, response, result, results, protected_count,
               error_count, skipped_count, events, answer, interrupted,
               summary >>

configure ==
  /\ Len(sdk_calls) < MaxCalls
  /\ \E kwargs \in Kwargs \ {"defaults"} :
       IF Raises(kwargs)
       THEN /\ sdk_calls' = Append(sdk_calls, Call("configure_raised", None))
            /\ default_client' = default_client
            /\ instances' = instances
       ELSE /\ instances' = DAONClient(instances, kwargs)
            /\ default_client' = Len(instances) + 1
            /\ sdk_calls' = Append(sdk_calls, Call("configure", Len(instances) + 1))
  /\ SdkIdle

UseDefault(op) ==
  /\ Len(sdk_calls) < MaxCalls
  /\ LET found == Lookup(default_client, instances)
     IN /\ default_client' = found.client
        /\ instances' = found.created
        /\ sdk_calls' = Append(sdk_calls, Call(op, found.client))
  /\ SdkIdle

get_client == UseDefault("get_client")

protect == UseDefault("protect")

verify == UseDefault("verify")

check_liberation_compliance == UseDefault("check_liberation_compliance")

InitSdk ==
  /\ InitTool
  /\ script = "full"
  /\ dry_run
  /\ license_type = "liberation_v1"
  /\ source = MissingPath

NextSdk ==
  \/ configure \/ get_client \/ protect \/ verify
  \/ check_liberation_compliance

SpecSdk == InitSdk /\ [][NextSdk]_vars

(* ======================= properties of the pipeline ==================== *)
HasEvent(e) == \E n \in 1..Len(events) : events[n].e = e
HasEventAt(e, k) == \E n \in 1..Len(events) : events[n] = Event(e, k)
Terminated == pc \in {"done", "crashed"}
ProcessStarted == HasEvent("process")
MinContent(scr) == IF scr = "full" THEN MinContentFull ELSE MinContentSimple

(* C1: absent a user interrupt, once process_works has run to its end a    *)
(* submission has been attempted for every one of the N works, whatever    *)
(* exception the handling of an earlier item raised.                       *)
C1_EveryWorkSubmitted ==
  (Terminated /\ ProcessStarted /\ ~interrupted)
    => \A k \in 1..Len(works) : HasEventAt("submit", k)

(* C2: when the handling of some item raised an unexpected exception and   *)
(* no interrupt occurred, the result log after process_works holds an      *)
(* outcome for every one of the N works, a failure outcome for the item    *)
(* that raised.                                                            *)
C2_ExceptionItemLogged ==
  (pc \in {"summary", "done"} /\ ProcessStarted /\ ~interrupted
     /\ HasEvent("exception"))
    => /\ Len(results) = Len(works)
       /\ \A n \in 1..Len(events) :
            events[n].e = "exception"
              => \E m \in 1..Len(results) :
                   /\ results[m].k = events[n].k
                   /\ results[m].result.success = "false"

(* C3: an interrupt arriving inside the loop after M < N works were        *)
(* handled stops the loop without submitting a later work, leaves exactly  *)
(* M outcomes in the log, is not counted as an error, and the summary      *)
(* reports M processed items with protected_count + error_count = M.       *)
C3_InterruptKeepsPartial ==
  (Terminated /\ interrupted)
    => \A n \in 1..Len(events) :
         (events[n].e = "interrupt" /\ events[n].k < Len(works))
           => /\ \A m \in 1..Len(events) :
                   events[m].e = "submit" => events[m].k <= events[n].k + 1
              /\ Len(results) = events[n].k
              /\ protected_count + error_count = events[n].k
              /\ summary.shown = 1
              /\ summary.total = events[n].k
              /\ summary.protected + summary.failed = events[n].k

(* C4: once process_works has started, show_summary has run exactly once   *)
(* by the time the run ends, interrupted or not.                           *)
C4_SummaryRunsOnce ==
  /\ summary.shown <= 1
  /\ (Terminated /\ ProcessStarted) => summary.shown = 1

(* C5: in live mode nothing is submitted unless the prompt was answered    *)
(* "y" or "Y"; any other answer ends the run with no submission and no     *)
(* summary; in dry-run mode no prompt is shown and processing starts       *)
(* right after the preview.                                                *)
C5_ConfirmationGate ==
  /\ (~dry_run /\ (HasEvent("submit") \/ HasEvent("process")))
       => (HasEvent("prompt") /\ answer \in { <<"y">>, <<"Y">> })
  /\ (~dry_run /\ HasEvent("prompt") /\ answer \notin { <<"y">>, <<"Y">> })
       => (pc = "done" /\ ~HasEvent("submit") /\ ~HasEvent("post")
           /\ summary.shown = 0)
  /\ (~dry_run /\ HasEvent("prompt") /\ answer \in { <<"y">>, <<"Y">> })
       => ProcessStarted
  /\ dry_run => ~HasEvent("prompt")
  /\ dry_run =>
       \A n \in 1..Len(events) :
         events[n].e = "preview"
           => (n < Len(events) /\ events[n + 1].e = "process")

C5_Witness ==
  /\ ~dry_run
  /\ answer = <<"Y">>
  /\ HasEvent("post")
  /\ pc = "done"

(* C6 (as stated): in a dry run no network request is issued at any stage  *)
(* for any source type, and every logged outcome is a simulated success    *)
(* carrying "sha256:" + the hex digest of the work's content.              *)
C6_DryRunNoNetwork ==
  dry_run
    => /\ ~HasEvent("fetch")
       /\ ~HasEvent("post")
       /\ \A m \in 1..Len(results) :
            /\ results[m].result.success = "true"
            /\ results[m].result.simulated
            /\ results[m].result.content_hash = HashStr(results[m].work.content)

(* C6 (amended): in a dry run no request is issued to the protection API   *)
(* at any stage; the only network requests are the page fetches of a       *)
(* URL-list source, made while parsing; every logged outcome is a          *)
(* simulated success carrying "sha256:" + the hex digest of the content.   *)
C6_DryRunNoSubmission ==
  dry_run
    => /\ ~HasEvent("post")
       /\ \A n \in 1..Len(events) :
            events[n].e = "fetch"
              => /\ script = "full" /\ source.ext = "txt"
                 /\ \A m \in 1..n : events[m].e \in {"fetch", "fetch_delay"}
       /\ \A m \in 1..Len(results) :
            /\ results[m].result.obj
            /\ results[m].result.success = "true"
            /\ results[m].result.simulated
            /\ ~results[m].result.has_error
            /\ results[m].result.content_hash.kind = "str"
            /\ results[m].result.content_hash.prefix = "sha256:"
            /\ results[m].result.content_hash.hex = Sha256Hex(results[m].work.content)

C6_Witness ==
  /\ dry_run
  /\ HasEvent("fetch")
  /\ Len(results) >= 1
  /\ pc = "done"

(* C7: the inter-item delay is executed after every item before the next   *)
(* item is submitted, whether the item succeeded, failed or raised.        *)
C7_DelayBeforeNextItem ==
  \A n \in 1..Len(events) :
    (events[n].e = "submit" /\ events[n].k > 1)
      => \E m \in 1..n : events[m] = Event("delay", events[n].k - 1)

(* C8: for a transport error, a non-2xx status or a malformed body (not    *)
(* JSON, or JSON that is no object with a boolean success field)           *)
(* protect_work returns an outcome with success = false and an error text. *)
BadResponse(resp) ==
  \/ resp.net = "error"
  \/ resp.net = "ok" /\ resp.status # "2xx"
  \/ resp.net = "ok" /\ resp.body \in {"notjson", "empty_obj", "array"}

C8_BadResponseIsFailure ==
  (pc = "classify" /\ ~dry_run /\ BadResponse(response))
    => /\ result.obj
       /\ result.success = "false"
       /\ result.has_error

(* C9: no Work whose content is empty or, once trimmed, shorter than the   *)
(* script's minimum (100 full, 50 simple) is handed to the batch stage.    *)
C9_NoShortContent ==
  pc = "parsed"
    => \A k \in 1..Len(works) :
         /\ works[k].content # << >>
         /\ TextLen(Strip(works[k].content)) >= MinContent(script)

(* C10: no Work with an empty title or with content longer than the        *)
(* 10 MiB ceiling is handed to the batch stage.                            *)
C10_TitleAndCeiling ==
  pc = "parsed"
    => \A k \in 1..Len(works) :
         /\ works[k].title # JStr(<< >>)
         /\ TextLen(works[k].content) <= MaxContentSize


(* ------------------------- parsing and sources ------------------------- *)
CountKind(log, kind) == Cardinality({ k \in 1..Len(log) : log[k].kind = kind })
ParsingOver == pc = "parsed" /\ ~OpenFails(script, source)

(* C11: every record a parser drops because it fails validation is counted *)
(* as skipped and not as an error: once parsing is over skipped_count is   *)
(* the number of validation-rejected records, and error_count and          *)
(* protected_count are what they were before parsing.                      *)
C11_DroppedCountedAsSkipped ==
  (script = "full" /\ ParsingOver)
    => /\ skipped_count = CountKind(parse_log, "drop")
       /\ error_count = 0
       /\ protected_count = 0


(* parse_*: the Works a parser returns for a list of records, in order.    *)
RECURSIVE WorksOf(_, _, _)
WorksOf(scr, src, list) ==
  IF list = << >> THEN << >>
  ELSE LET r == ParseItem(scr, src, Head(list))
       IN (IF r.kind = "work" THEN << r.work >> ELSE << >>)
            \o WorksOf(scr, src, Tail(list))

(* C12: in each parser a record whose parsing raises is skipped and the    *)
(* parsing goes on: every record of the source is visited once, in order,  *)
(* and the sequence returned holds, in source order, the Work of every     *)
(* record that parses and validates; the parser itself does not fail.      *)
C12_RaisingRecordSkipped ==
  /\ pc \in {"parsing", "parsed"}
       => /\ \A k \in 1..Len(parse_log) : parse_log[k].at = k
          /\ Len(works) = CountKind(parse_log, "work")
  /\ ParsingOver
       => /\ Len(parse_log) = Len(WorkList(script, source))
          /\ works = WorksOf(script, source, WorkList(script, source))

C12_Witness ==
  /\ ParsingOver
  /\ Len(parse_log) = 2
  /\ parse_log[1].kind = "raise"
  /\ parse_log[2].kind = "work"
  /\ Len(works) = 1


OtherTopLevel == pc = "parsed" /\ source.ext = "json" /\ source.top = "other"

(* C14 as stated: for a structured export whose top level is neither a     *)
(* list of records nor an object with a works key, both scripts treat the  *)
(* parse as failed and produce no works.                                   *)
C14_OtherTopLevelFails ==
  OtherTopLevel => works = << >> /\ parse_log = << >>

(* C14, amended: for such a file the full script treats the parse as       *)
(* failed and produces no works; the lightweight script treats the         *)
(* top-level value as one record, which gives one Work when it is an       *)
(* object whose content has more than 50 characters, and none otherwise.   *)
C14_OtherTopLevelByScript ==
  OtherTopLevel
    => IF script = "full" THEN works = << >> /\ parse_log = << >>
       ELSE LET data == source.items[1]
                accepted == /\ data.obj
                            /\ TextLen(Strip(extract_content(data.f))) > MinContentSimple
            IN /\ Len(parse_log) = 1
               /\ Len(works) = IF accepted THEN 1 ELSE 0
               /\ accepted => /\ works[1].title = Get(data.f, "title", Untitled)
                               /\ works[1].content = extract_content(data.f)

C14_Witness ==
  /\ OtherTopLevel
  /\ script = "simple"
  /\ Len(works) = 1


(* The value a parser returns for a source, and the same records under the *)
(* other of the two accepted top-level shapes.                             *)
ParseExport(scr, src) ==
  IF OpenFails(scr, src) THEN << >> ELSE WorksOf(scr, src, WorkList(scr, src))
OtherShape(src) ==
  [src EXCEPT !.top = IF src.top = "list" THEN "works" ELSE "list"]
ListOrWorks ==
  pc = "parsed" /\ source.ext = "json" /\ source.top \in {"list", "works"}

(* C15: for every list L of records the structured-export parser returns   *)
(* the same sequence of Works for a file holding {"works": L} as for a     *)
(* file holding L as its top-level array, in both scripts.                 *)
C15_WrapperIrrelevant ==
  ListOrWorks
    => /\ works = ParseExport(script, OtherShape(source))
       /\ Len(parse_log) = Len(source.items)

C15_Witness ==
  /\ ListOrWorks
  /\ source.top = "works"
  /\ Len(source.items) = 2
  /\ Len(works) = 2


(* C16: parse_wordpress_export never returns a Work built from an item     *)
(* whose status element is anything other than "publish", whatever its     *)
(* post type and content, and such an item is left out silently: it is     *)
(* not reported as an error.                                               *)
C16_UnpublishedSilentlySkipped ==
  (script = "full" /\ source.ext = "xml" /\ pc \in {"parsing", "parsed"})
    => \A k \in 1..Len(parse_log) :
         source.items[k].status \notin {"absent", "publish"}
           => parse_log[k].kind = "skip"


(* Files of a directory or single-file source, and the Work built from the *)
(* k-th of them when the parse log says one was.                           *)
FromFiles ==
  /\ pc \in {"parsing", "parsed"}
  /\ source.ext = "dir" \/ (script = "simple" /\ source.ext = "txt")
WorkAt(k) == works[CountKind(SubSeq(parse_log, 1, k), "work")]

(* C17 as stated: for every readable text file, if its first line          *)
(* (trimmed) is shorter than 100 characters (and, in the lightweight       *)
(* script, does not end with '.') the title is that line and the content   *)
(* the rest of the file; otherwise the title is the filename stem and the  *)
(* content the whole text. Contents are compared up to surrounding blanks. *)
C17_TitleFromFirstLine ==
  FromFiles
    => \A k \in 1..Len(parse_log) :
         parse_log[k].kind = "work"
           => LET file == source.items[k]
                  first == Strip(FirstLine(file.text))
                  short == /\ TextLen(first) < TitleLineLimit
                           /\ script = "simple" => ~EndsWithDot(first)
              IN IF short
                 THEN /\ WorkAt(k).title = JStr(first)
                      /\ Strip(WorkAt(k).content) = Strip(AfterFirstLine(file.text))
                 ELSE /\ WorkAt(k).title = JStr(file.stem)
                      /\ Strip(WorkAt(k).content) = Strip(file.text)

(* C17, amended: the full script takes the first line of the file, trimmed;*)
(* when it is shorter than 100 characters it is the title and the content  *)
(* is the rest of the file, trimmed, otherwise the title is the filename   *)
(* stem and the content the whole text (the rest, when that line equals    *)
(* the stem). The lightweight script does the same on the trimmed text of  *)
(* the file, so its first line is the first non-blank line, and also       *)
(* requires that the line not end with '.'.                                *)
C17_TitleFromFirstLineByScript ==
  FromFiles
    => \A k \in 1..Len(parse_log) :
         parse_log[k].kind = "work"
           => LET file == source.items[k]
                  text == IF script = "full" THEN file.text ELSE Strip(file.text)
                  first == Strip(FirstLine(text))
                  short == /\ TextLen(first) < TitleLineLimit
                           /\ script = "simple" => ~EndsWithDot(first)
              IN /\ WorkAt(k).title = JStr(IF short THEN first ELSE file.stem)
                 /\ WorkAt(k).content =
                      IF short \/ (script = "full" /\ first = file.stem)
                      THEN Strip(AfterFirstLine(text)) ELSE text

C17_Witness ==
  /\ FromFiles
  /\ script = "simple"
  /\ Len(parse_log) = 1
  /\ parse_log[1].kind = "work"
  /\ Strip(FirstLine(source.items[1].text)) = << >>
  /\ works[1].title = JStr(Chars(20))


NoTitle(r) == r.obj /\ ~Truthy(Get(r.f, "title", JNull))
WithTitle(r) == [r EXCEPT !.f = [k \in DOMAIN r.f \cup {"title"} |->
                                   IF k = "title" THEN Title ELSE r.f[k]]]

(* C18: every Work a parser produces has a non-empty title, and no record  *)
(* is dropped for lack of a title: a record whose title field is missing,  *)
(* null or empty is dropped only if it would also be dropped with a title. *)
C18_TitleNeverMissing ==
  pc \in {"parsing", "parsed"}
    => /\ \A k \in 1..Len(works) : Truthy(works[k].title)
       /\ source.ext = "json"
            => \A k \in 1..Len(parse_log) :
                 (NoTitle(source.items[k]) /\ parse_log[k].kind = "drop")
                   => ParseItem(script, source, WithTitle(source.items[k])).kind = "drop"


(* C19: parse_url_list waits its fixed delay between every two consecutive *)
(* fetches: each fetch but the first comes after the delay that follows    *)
(* the fetch before it, whether that one succeeded, raised or gave a work  *)
(* that failed validation.                                                 *)
C19_DelayBetweenFetches ==
  \A n \in 1..Len(events) :
    (events[n].e = "fetch" /\ events[n].k > 1)
      => /\ n > 1
         /\ events[n - 1] = Event("fetch_delay", events[n].k - 1)


(* ---------------------------- content hash ----------------------------- *)
Digest(content) == [kind |-> "str", prefix |-> "sha256:", hex |-> Sha256Hex(content)]
Recorded(m) == results[m].result.content_hash
Sent(m) == payloads[m].json.content_hash

Increasing(e) ==
  \A n, m \in 1..Len(events) :
    (n < m /\ events[n].e = e /\ events[m].e = e) => events[n].k < events[m].k

(* C21: each work is submitted at most once per run, a failed submission   *)
(* is never retried, works are visited in input order, and the result log  *)
(* is an order-preserving subsequence of the input works in which no work  *)
(* appears twice.                                                          *)
C21_AtMostOnceInOrder ==
  /\ Increasing("submit")
  /\ Increasing("post")
  /\ \A m \in 1..Len(payloads) : \A n \in 1..Len(payloads) :
       m < n => payloads[m].k < payloads[n].k
  /\ \A m \in 1..Len(results) :
       /\ results[m].k \in 1..Len(works)
       /\ results[m].work = works[results[m].k]
       /\ HasEventAt("submit", results[m].k)
       /\ \A n \in 1..Len(results) : m < n => results[m].k < results[n].k

C21_Witness ==
  /\ pc = "done"
  /\ Len(works) = 2
  /\ Len(results) = 2
  /\ results[1].result.success = "false"
  /\ HasEventAt("exception", 2) \/ results[2].result.success = "true"
  /\ Cardinality({ n \in 1..Len(events) : events[n].e = "submit" }) = 2


(* --------------------------- outcome shapes ---------------------------- *)
SuccessShape(r) ==
  r.obj /\ r.success = "true" /\ r.content_hash.kind = "str" /\ ~r.has_error
FailureShape(r) ==
  r.obj /\ r.success = "false" /\ r.has_error /\ r.error # ""

(* C22: every outcome appended to the result log, in dry-run or live mode, *)
(* has exactly one of two shapes: success = true with a content_hash and   *)
(* no error, or success = false with an error message, whatever JSON       *)
(* object the endpoint returned.                                           *)
C22_OutcomeShapes ==
  \A m \in 1..Len(results) :
    SuccessShape(results[m].result) # FailureShape(results[m].result)


(* C23: whenever error_count > 0 at summary time, show_summary lists every *)
(* failed item: the number of failure lines printed equals error_count.    *)
C23_FailureLinesMatchCount ==
  (summary.shown > 0 /\ summary.failed > 0)
    => Len(summary.lines) = summary.failed


(* ------------------------- syndication terms --------------------------- *)
FromItems ==
  script = "full" /\ source.ext = "xml" /\ pc \in {"parsing", "parsed"}

(* C24 as stated: the Work's tags list holds all of the item's post_tag    *)
(* and category terms in the order in which they are encountered in the    *)
(* item, duplicates kept and no other terms added.                         *)
C24_TermsInEncounterOrder ==
  FromItems
    => \A k \in 1..Len(parse_log) :
         parse_log[k].kind = "work"
           => WorkAt(k).tags = TermsOf(source.items[k].terms, {"post_tag", "category"})

(* C24, amended: the tags list holds the item's post_tag terms in the      *)
(* order encountered, followed by its category terms in the order          *)
(* encountered, duplicates kept and no other terms added.                  *)
C24_TagsThenCategories ==
  FromItems
    => \A k \in 1..Len(parse_log) :
         parse_log[k].kind = "work"
           => LET terms == source.items[k].terms
                  tags == WorkAt(k).tags
                  nTags == Len(TermsOf(terms, {"post_tag"}))
              IN /\ tags = TermsOf(terms, {"post_tag"}) \o TermsOf(terms, {"category"})
                 /\ Len(tags) = Cardinality({ n \in 1..Len(terms) :
                                    terms[n].domain \in {"post_tag", "category"} })
                 /\ \A n \in 1..Len(tags) :
                      \E q \in 1..Len(terms) :
                        /\ terms[q].term = tags[n]
                        /\ terms[q].domain = IF n <= nTags THEN "post_tag" ELSE "category"

C24_Witness ==
  /\ FromItems
  /\ Len(parse_log) = 1
  /\ parse_log[1].kind = "work"
  /\ source.items[1].terms[1].domain = "category"
  /\ works[1].tags = << "ocean", "ocean", "storm", "fiction", "drafts" >>


(* --------------------------- default client ---------------------------- *)
Configured(n) == sdk_calls[n].op = "configure"
Used(n) == sdk_calls[n].op \in Uses
NoConfigureBetween(n, m) == \A q \in (n + 1)..(m - 1) : ~Configured(q)

(* C25: the default client is created at most once per configuration:      *)
(* get_client() calls with no configure() between them return the same     *)
(* instance, and after configure(kwargs) every later get_client(),          *)
(* protect(), verify() and check_liberation_compliance() call uses the      *)
(* instance that configure returned, until the next configure() replaces it.*)
C25_DefaultClientSingleton ==
  /\ \A n, m \in 1..Len(sdk_calls) :
       (n < m /\ Used(n) /\ Used(m) /\ NoConfigureBetween(n, m))
         => sdk_calls[n].client = sdk_calls[m].client
  /\ \A n, m \in 1..Len(sdk_calls) :
       (n < m /\ Configured(n) /\ Used(m) /\ NoConfigureBetween(n, m))
         => sdk_calls[m].client = sdk_calls[n].client
  /\ \A n, m \in 1..Len(sdk_calls) :
       (n < m /\ Configured(n) /\ Configured(m))
         => sdk_calls[n].client # sdk_calls[m].client
  /\ Len(instances) <= 1 + Cardinality({ n \in 1..Len(sdk_calls) : Configured(n) })
  /\ \A n \in 1..Len(sdk_calls) :
       Used(n) => /\ sdk_calls[n].client \in 1..Len(instances)
                  /\ instances[sdk_calls[n].client] = "defaults"
                       <=> \A q \in 1..(n - 1) : ~Configured(q)

C25_Witness ==
  /\ Len(sdk_calls) = 4
  /\ sdk_calls[1] = Call("get_client", 1)
  /\ sdk_calls[2] = Call("configure", 2)
  /\ sdk_calls[3] = Call("protect", 2)
  /\ sdk_calls[4] = Call("get_client", 2)

====
